---- MODULE Spec2Model ----
(***************************************************************************)
(* Model of the blueprint generator UI: the App orchestrator (src/App.tsx), *)
(* the streaming module generator (services/geminiService) and the file     *)
(* viewer CodeBlock (src/components/CodeBlock.tsx, the streaming version    *)
(* that starts at line 171).                                                *)
(*                                                                          *)
(* Text is modelled as a sequence of tokens.  A token is one of the lexical *)
(* units the two regular expressions of the code distinguish: an opening    *)
(* marker <file name="...">, the closing marker </file>, a whitespace       *)
(* character and a non-whitespace character.                                *)
(***************************************************************************)
EXTENDS Integers, Sequences, FiniteSets, TLC

\* ------------------------------------------------------------------ bounds
\* Spec: generation requests
MaxSessions == 2
\* Spec: chunks held by the three buffers together
MaxChunks == 1
\* SpecResults: chunks held by the three buffers together
MaxResultChunks == 2
\* SpecViewer: tokens of the frontend buffer
MaxLen == 5
\* SpecPreview: chunks held by the three buffers together
MaxPreviewChunks == 2
\* SpecPreview, SpecBundler: blob URLs created
MaxBlobs == 2
\* SpecBundler: records of the frontend text
MaxBundleFiles == 2

\* ------------------------------------------------------------------ tokens
OpenApp == "<file name=\"App.tsx\">"
OpenMain == "<file name=\"main.tsx\">"
OpenDocker == "<file name=\"Dockerfile\">"
OpenPagesIndex == "<file name=\"pages/index.tsx\">"
OpenCard == "<file name=\"components/Card.tsx\">"
OpenUtils == "<file name=\"utils.ts\">"
CloseTag == "</file>"
Newline == "\n"
Char == "x"
\* the text "export default " and the text "export " of a body, and the text
\* "const DefaultExport = " the bundler writes
ExportDefault == "export default "
Export == "export "
ConstDefaultExport == "const DefaultExport = "

OpenTags == {OpenApp, OpenMain, OpenDocker, OpenPagesIndex, OpenCard, OpenUtils}
Whitespace == {Newline}
\* the tokens of the token-by-token stream of SpecViewer
Tokens == {OpenApp, OpenMain, CloseTag, Newline, Char}

\* capture group 1 of <file name="([^"]+)">
NameOf(tok) ==
    CASE tok = OpenApp -> "App.tsx"
      [] tok = OpenMain -> "main.tsx"
      [] tok = OpenPagesIndex -> "pages/index.tsx"
      [] tok = OpenCard -> "components/Card.tsx"
      [] tok = OpenUtils -> "utils.ts"
      [] OTHER -> "Dockerfile"

\* the characters of a path
Chars(name) ==
    CASE name = "App.tsx" -> <<"A", "p", "p", ".", "t", "s", "x">>
      [] name = "main.tsx" -> <<"m", "a", "i", "n", ".", "t", "s", "x">>
      [] name = "Dockerfile" -> <<"D", "o", "c", "k", "e", "r", "f", "i", "l", "e">>
      [] name = "index.tsx" -> <<"i", "n", "d", "e", "x", ".", "t", "s", "x">>
      [] name = "pages/index.tsx" ->
            <<"p", "a", "g", "e", "s", "/", "i", "n", "d", "e", "x", ".", "t", "s", "x">>
      [] name = "components/Card.tsx" ->
            <<"c", "o", "m", "p", "o", "n", "e", "n", "t", "s", "/", "C", "a", "r", "d",
              ".", "t", "s", "x">>
      [] name = "utils.ts" -> <<"u", "t", "i", "l", "s", ".", "t", "s">>
      [] name = "src/App.tsx" -> <<"s", "r", "c", "/", "A", "p", "p", ".", "t", "s", "x">>
      [] OTHER -> <<>>

Min(S) == CHOOSE x \in S : \A y \in S : x <= y

\* ------------------------------------------------------------------ types.ts
IDLE == "IDLE"
GENERATING_BLUEPRINT == "GENERATING_BLUEPRINT"
BLUEPRINT_READY == "BLUEPRINT_READY"
ERROR == "ERROR"

SUMMARY == "Summary"
FRONTEND == "Frontend Code"
BACKEND == "Backend Code"
DEPLOYMENT == "Deployment"

Modules == {"frontend", "backend", "deployment"}
TabOption == {SUMMARY, FRONTEND, BACKEND, DEPLOYMENT}
CodeTabs == {FRONTEND, BACKEND, DEPLOYMENT}

\* ------------------------------------------------------------------ string helpers
\* String.prototype.trim
RECURSIVE TrimStart(_)
TrimStart(s) ==
    IF s # <<>> /\ Head(s) \in Whitespace THEN TrimStart(Tail(s)) ELSE s

RECURSIVE TrimEnd(_)
TrimEnd(s) ==
    IF s # <<>> /\ s[Len(s)] \in Whitespace
    THEN TrimEnd(SubSeq(s, 1, Len(s) - 1))
    ELSE s

Trim(s) == TrimEnd(TrimStart(s))

Slice(s, from) == SubSeq(s, from, Len(s))

\* s.split(sep).pop(): the text after the last sep, the whole text when it
\* holds no sep
SplitPop(s, sep) ==
    LET seps == {i \in 1..Len(s) : s[i] = sep}
    IN  IF seps = {} THEN s
        ELSE SubSeq(s, (CHOOSE i \in seps : \A j \in seps : j <= i) + 1, Len(s))

\* s.includes(sub)
Includes(s, sub) ==
    \E i \in 0..(Len(s) - Len(sub)) : SubSeq(s, i + 1, i + Len(sub)) = sub

\* ------------------------------------------------------------------ the regular expressions
NoMatch == [found |-> FALSE, name |-> "", body |-> <<>>, index |-> 0, end |-> 0]

\* mutant of FileRegexExec: the body is matched greedily, up to the last
\* closing marker of the text
FileRegexExecGreedy(content, lastIndex) ==
    LET starts == {p \in lastIndex..Len(content) :
                     /\ content[p] \in OpenTags
                     /\ \E q \in (p + 1)..Len(content) : content[q] = CloseTag}
    IN  IF starts = {} THEN NoMatch
        ELSE LET p == Min(starts)
                 q == CHOOSE r \in (p + 1)..Len(content) :
                         /\ content[r] = CloseTag
                         /\ \A r2 \in (r + 1)..Len(content) : content[r2] # CloseTag
             IN  [found |-> TRUE, name |-> NameOf(content[p]),
                  body |-> SubSeq(content, p + 1, q - 1),
                  index |-> p, end |-> q + 1]

\* One run of /<file name="([^"]+)">([\s\S]*?)<\/file>/g from position
\* lastIndex: the leftmost opening marker that has a closing marker after it,
\* the body running (non-greedy) to the first closing marker.  index is the
\* position of the opening marker, end the position after the closing marker.
FileRegexExec(content, lastIndex) ==
    LET starts == {p \in lastIndex..Len(content) :
                     /\ content[p] \in OpenTags
                     /\ \E q \in (p + 1)..Len(content) : content[q] = CloseTag}
    IN  IF starts = {} THEN NoMatch
        ELSE LET p == Min(starts)
                 q == Min({r \in (p + 1)..Len(content) : content[r] = CloseTag})
             IN  [found |-> TRUE, name |-> NameOf(content[p]),
                  body |-> SubSeq(content, p + 1, q - 1),
                  index |-> p, end |-> q + 1]

\* mutant of MatchAllFrom: the matches are collected last first
RECURSIVE MatchAllLastFirst(_, _)
MatchAllLastFirst(content, lastIndex) ==
    LET m == FileRegexExec(content, lastIndex)
    IN  IF m.found THEN MatchAllLastFirst(content, m.end) \o <<m>> ELSE <<>>

\* [...content.matchAll(fileRegex)]
RECURSIVE MatchAllFrom(_, _)
MatchAllFrom(content, lastIndex) ==
    LET m == FileRegexExec(content, lastIndex)
    IN  IF m.found THEN <<m>> \o MatchAllFrom(content, m.end) ELSE <<>>

MatchAll(content) == MatchAllFrom(content, 1)

\* remainingContent.match(/<file name="([^"]+)">([\s\S]*?)$/): the leftmost
\* opening marker, the body running to the end of the text.
PartialRegexMatch(remaining) ==
    LET starts == {p \in 1..Len(remaining) : remaining[p] \in OpenTags}
    IN  IF starts = {} THEN NoMatch
        ELSE LET p == Min(starts)
             IN  [found |-> TRUE, name |-> NameOf(remaining[p]),
                  body |-> Slice(remaining, p + 1),
                  index |-> p, end |-> Len(remaining) + 1]

\* ------------------------------------------------------------------ CodeBlock: the parser
\* A ParsedFile.  isComplete records which branch built the entry: the
\* matches.map of a closed record or the push of the partial record.
TXT == <<"t", "x", "t">>

\* fullPath.split('.').pop() || 'txt'
LanguageOf(fullPath) ==
    LET last == SplitPop(Chars(fullPath), ".")
    IN  IF last = <<>> THEN TXT ELSE last

\* the language of every path of the model ("" is the path of NoFile)
Languages == [name \in {NameOf(tok) : tok \in OpenTags} \cup {""} |-> LanguageOf(name)]

ParsedFile(name, content, isComplete) ==
    [name |-> name, content |-> content, language |-> Languages[name],
     isComplete |-> isComplete]

NoFile == ParsedFile("", <<>>, TRUE)

\* mutant of ClosedFiles: the body is kept as matched, without trim()
ClosedFilesUntrimmed(matches) ==
    [i \in 1..Len(matches) |-> ParsedFile(matches[i].name, matches[i].body, TRUE)]

\* matches.map(m => ({name: m[1], content: m[2].trim(), ...}))
ClosedFiles(matches) ==
    [i \in 1..Len(matches) |-> ParsedFile(matches[i].name, Trim(matches[i].body), TRUE)]

\* mutant of PartialFiles: the partial record is looked for without asking
\* isStreaming
PartialFilesAlways(content, matches, isStreaming) ==
    LET lastMatchIndex == IF Len(matches) > 0 THEN matches[Len(matches)].end ELSE 1
        partialMatch == PartialRegexMatch(Slice(content, lastMatchIndex))
    IN  IF partialMatch.found
        THEN <<ParsedFile(partialMatch.name, partialMatch.body, FALSE)>>
        ELSE <<>>

\* the "if (isStreaming)" block
PartialFiles(content, matches, isStreaming) ==
    IF isStreaming
    THEN LET lastMatchIndex == IF Len(matches) > 0 THEN matches[Len(matches)].end ELSE 1
             partialMatch == PartialRegexMatch(Slice(content, lastMatchIndex))
         IN  IF partialMatch.found
             THEN <<ParsedFile(partialMatch.name, partialMatch.body, FALSE)>>
             ELSE <<>>
    ELSE <<>>

\* mutant of ParseFiles: an unclosed record is kept as a file whatever the flag
ParseFilesKeepsOpen(content, isStreaming) ==
    IF content = <<>> THEN <<>>
    ELSE LET matches == MatchAll(content)
         IN  ClosedFiles(matches) \o PartialFiles(content, matches, TRUE)

\* the value handed to setFiles by one pass of the parse effect
ParseFiles(content, isStreaming) ==
    IF content = <<>> THEN <<>>
    ELSE LET matches == MatchAll(content)
         IN  ClosedFiles(matches) \o PartialFiles(content, matches, isStreaming)

\* mutant of NextActiveFile: every pass selects the first file
NextActiveFileFirst(content, parsed, active) ==
    IF content = <<>> THEN active
    ELSE IF Len(parsed) > 0 THEN parsed[1]
    ELSE active

\* the active file after one pass of the parse effect
NextActiveFile(content, parsed, active) ==
    IF content = <<>> THEN active
    ELSE IF active = NoFile /\ Len(parsed) > 0 THEN parsed[1]
    ELSE active


\* ------------------------------------------------------------------ state
VARIABLES
    status,          \* App: AppStatus
    blueprint,       \* App: 0 is null, n is the blueprint returned for request n
    activeTab,       \* App: TabOption
    frontendCode,    \* App: the three module buffers
    backendCode,
    deploymentGuide,
    loadingModules,  \* App: [Modules -> BOOLEAN]
    isExporting,     \* App
    error,           \* App: NoError is null
    requests,        \* number of handleCreateBlueprint calls so far (the session)
    streams,         \* generateModuleCode calls in flight: [bp, moduleType]
    chunkSource,     \* per module, the bp of the stream behind each chunk of the buffer
    zip,             \* handleExport: the zip.file(path, content) calls of the running export
    failedStreams,   \* the generateModuleCode calls that failed (what console.error logged)
    files,           \* CodeBlock
    activeFile,      \* CodeBlock: a ParsedFile object, NoFile is null
    showPreview,     \* CodeBlock
    previewUrl,      \* CodeBlock: 0 is null, n is the URL of the n-th blob
    blobs            \* the documents of the blob URLs created and not revoked, in order

appVars == <<status, blueprint, activeTab, frontendCode, backendCode, deploymentGuide,
             loadingModules, isExporting, error, requests, streams, chunkSource, zip,
             failedStreams>>
vars == <<status, blueprint, activeTab, frontendCode, backendCode, deploymentGuide,
          loadingModules, isExporting, error, requests, streams, chunkSource, zip,
          failedStreams, files, activeFile, showPreview, previewUrl, blobs>>

NoError == "null"
BlueprintError == "Failed to generate blueprint"
ExportError == "Failed to export project files"

NoneLoading == [m \in Modules |-> FALSE]
AllLoading == [m \in Modules |-> TRUE]
NoChunks == [m \in Modules |-> <<>>]

\* ------------------------------------------------------------------ App.renderContent
ModuleOfTab(tab) ==
    CASE tab = FRONTEND -> "frontend"
      [] tab = BACKEND -> "backend"
      [] OTHER -> "deployment"

\* the CodeBlock instance exists while the results section shows a code tab;
\* the three code tabs render it at the same place of the tree, so one
\* instance (and its state) serves all three
Mounted(bp, tab) == bp # 0 /\ tab \in CodeTabs

Buffer(m) ==
    CASE m = "frontend" -> frontendCode
      [] m = "backend" -> backendCode
      [] OTHER -> deploymentGuide

\* props of the CodeBlock
ContentProp == Buffer(ModuleOfTab(activeTab))
IsStreamingProp == loadingModules[ModuleOfTab(activeTab)]

\* ------------------------------------------------------------------ CodeBlock: the parse effect
\* useEffect(..., [content, isStreaming]): runs on mount and on every render
\* in which a dependency changed; an unmounted component has no state
ParseEffect ==
    IF ~Mounted(blueprint', activeTab')
    THEN /\ files' = <<>>
         /\ activeFile' = NoFile
    ELSE LET fresh == ~Mounted(blueprint, activeTab)
             content == ContentProp'
             isStreaming == IsStreamingProp'
             prevFiles == IF fresh THEN <<>> ELSE files
             prevActive == IF fresh THEN NoFile ELSE activeFile
             parsed == ParseFiles(content, isStreaming)
         IN  IF fresh \/ content # ContentProp \/ isStreaming # IsStreamingProp
             THEN /\ files' = parsed
                  /\ activeFile' = NextActiveFile(content, parsed, prevActive)
             ELSE /\ files' = prevFiles
                  /\ activeFile' = prevActive

\* ------------------------------------------------------------------ CodeBlock: the preview
IsMainFile(f) ==
    \/ Includes(Chars(f.name), Chars("main.tsx"))
    \/ Includes(Chars(f.name), Chars("index.tsx"))
IsAppFile(f) == f.name = "src/App.tsx" \/ f.name = "App.tsx"

\* files.find(test), hits being the indexes of the files that pass the test:
\* the index of the first of them, 0 for undefined
Find(fs, hits) == IF hits = {} THEN 0 ELSE Min(hits)

\* files.filter(test), as indexes
Filter(fs, hits) == SelectSeq([i \in 1..Len(fs) |-> i], LAMBDA i : i \in hits)

\* Array.from(new Set(sortedFiles)): the first occurrence of every object
RECURSIVE Unique(_)
Unique(s) ==
    IF s = <<>> THEN <<>>
    ELSE LET front == Unique(SubSeq(s, 1, Len(s) - 1))
             last == s[Len(s)]
         IN  IF \E i \in 1..Len(front) : front[i] = last THEN front ELSE Append(front, last)

IsUtilsOrTypes(f) ==
    \/ Includes(Chars(f.name), <<"u", "t", "i", "l", "s">>)
    \/ Includes(Chars(f.name), <<"t", "y", "p", "e", "s">>)
IsComponent(f) == Includes(Chars(f.name), <<"c", "o", "m", "p", "o", "n", "e", "n", "t", "s", "/">>)
IsPage(f) == Includes(Chars(f.name), <<"p", "a", "g", "e", "s", "/">>)

MainFile(fs) == Find(fs, {i \in 1..Len(fs) : IsMainFile(fs[i])})
AppFile(fs) == Find(fs, {i \in 1..Len(fs) : IsAppFile(fs[i])})

\* f.name.split('/').pop()?.split('.')[0] || 'Unknown'
BaseName(fullPath) ==
    LET last == SplitPop(Chars(fullPath), "/")
        dots == {i \in 1..Len(last) : last[i] = "."}
        first == IF dots = {} THEN last ELSE SubSeq(last, 1, Min(dots) - 1)
    IN  IF first = <<>> THEN <<"U", "n", "k", "n", "o", "w", "n">> ELSE first

\* the three replace calls of the per-file transform over a body without
\* import lines: "export default " becomes "const DefaultExport = ", then
\* every "export " left is removed
RECURSIVE StripExports(_)
StripExports(content) ==
    IF content = <<>> THEN <<>>
    ELSE IF Head(content) = ExportDefault THEN <<ConstDefaultExport>> \o StripExports(Tail(content))
    ELSE IF Head(content) = Export THEN StripExports(Tail(content))
    ELSE <<Head(content)>> \o StripExports(Tail(content))

\* the part of the script written for a file: the transformed body and, when
\* the body holds "export default", the name of the line
\* "window.<name> = DefaultExport || <name>;" (none is <<>>)
BundledFile(f) ==
    [name |-> f.name,
     content |-> StripExports(f.content),
     window |-> IF \E i \in 1..Len(f.content) : f.content[i] = ExportDefault
                THEN BaseName(f.name) ELSE <<>>]

\* the document of the blob: the files of the bundle, in the order of uniqueFiles
Bundle(fs) ==
    LET sortedFiles == Filter(fs, {i \in 1..Len(fs) : IsUtilsOrTypes(fs[i])})
                         \o Filter(fs, {i \in 1..Len(fs) : IsComponent(fs[i])})
                         \o Filter(fs, {i \in 1..Len(fs) : IsPage(fs[i])})
                         \o <<AppFile(fs), MainFile(fs)>>
        uniqueFiles == Unique(sortedFiles)
    IN  [k \in 1..Len(uniqueFiles) |-> BundledFile(fs[uniqueFiles[k]])]

\* generatePreview over the files of the render: the blobs it creates, none
\* when it returns early
generatePreview(fs) ==
    IF Len(fs) = 0 THEN <<>>
    ELSE IF MainFile(fs) = 0 THEN <<>>
    ELSE IF AppFile(fs) = 0 THEN <<>>
    ELSE <<Bundle(fs)>>

\* useEffect(..., [showPreview, files]) after a step of the App: setFiles hands
\* over a new array on every pass of the parse effect
PreviewEffect ==
    IF ~Mounted(blueprint', activeTab')
    THEN /\ showPreview' = FALSE
         /\ previewUrl' = 0
         /\ blobs' = blobs
    ELSE LET fresh == ~Mounted(blueprint, activeTab)
             shown == IF fresh THEN FALSE ELSE showPreview
             url == IF fresh THEN 0 ELSE previewUrl
             passRan == fresh \/ ContentProp' # ContentProp \/ IsStreamingProp' # IsStreamingProp
             created == IF passRan /\ shown /\ Len(files') > 0 /\ url = 0
                        THEN generatePreview(files')
                        ELSE <<>>
         IN  /\ showPreview' = shown
             /\ blobs' = blobs \o created
             /\ previewUrl' = IF created # <<>> THEN Len(blobs') ELSE url

\* the two effects of the CodeBlock after a step of the App
Effects == ParseEffect /\ PreviewEffect

\* onClick of a file of the explorer
SelectFile(i) ==
    /\ Mounted(blueprint, activeTab)
    /\ i \in 1..Len(files)
    /\ activeFile # files[i] \/ showPreview
    /\ activeFile' = files[i]
    /\ showPreview' = FALSE
    /\ UNCHANGED <<appVars, files, previewUrl, blobs>>

\* the Preview / Code button is rendered: {enablePreview && files.length > 0
\* && ...}, enablePreview being set for the frontend viewer only
PreviewOffered ==
    /\ Mounted(blueprint, activeTab)
    /\ activeTab = FRONTEND
    /\ Len(files) > 0

\* onClick of the Preview / Code button, shown when enablePreview is set (the
\* frontend viewer) and files is not empty; then the preview effect, which
\* runs because showPreview changed
TogglePreview ==
    /\ PreviewOffered
    /\ LET clicked == IF ~showPreview THEN generatePreview(files) ELSE <<>>
           url == IF clicked # <<>> THEN Len(blobs) + 1 ELSE previewUrl
           effect == IF ~showPreview /\ url = 0 THEN generatePreview(files) ELSE <<>>
       IN  /\ showPreview' = ~showPreview
           /\ blobs' = blobs \o clicked \o effect
           /\ previewUrl' = IF effect # <<>> THEN Len(blobs') ELSE url
    /\ UNCHANGED <<appVars, files, activeFile>>


\* ------------------------------------------------------------------ App: generation
\* mutant of handleCreateBlueprint: the frontend buffer is not emptied
handleCreateBlueprintKeepsBuffer ==
    /\ blueprint = 0
    /\ status # GENERATING_BLUEPRINT
    /\ requests' = requests + 1
    /\ status' = GENERATING_BLUEPRINT
    /\ error' = NoError
    /\ blueprint' = 0
    /\ frontendCode' = frontendCode
    /\ backendCode' = <<>>
    /\ deploymentGuide' = <<>>
    /\ chunkSource' = [NoChunks EXCEPT !["frontend"] = chunkSource["frontend"]]
    /\ loadingModules' = NoneLoading
    /\ UNCHANGED <<activeTab, isExporting, streams, zip>>
    /\ UNCHANGED failedStreams
    /\ Effects

\* handleCreateBlueprint up to its await.  The form is shown while blueprint
\* is null and refuses a submit while status is GENERATING_BLUEPRINT.
handleCreateBlueprint ==
    /\ blueprint = 0
    /\ status # GENERATING_BLUEPRINT
    /\ requests' = requests + 1
    /\ status' = GENERATING_BLUEPRINT
    /\ error' = NoError
    /\ blueprint' = 0
    /\ frontendCode' = <<>>
    /\ backendCode' = <<>>
    /\ deploymentGuide' = <<>>
    /\ chunkSource' = NoChunks
    /\ loadingModules' = NoneLoading
    /\ UNCHANGED <<activeTab, isExporting, streams, zip>>
    /\ UNCHANGED failedStreams
    /\ Effects

\* generateAllCode(bp): the three generateModuleCode calls
generateAllCode(bp) ==
    /\ loadingModules' = AllLoading
    /\ streams' = streams \cup {[bp |-> bp, moduleType |-> m] : m \in Modules}

\* generateBlueprint resolved: the rest of the try block
BlueprintResolved ==
    /\ status = GENERATING_BLUEPRINT
    /\ blueprint' = requests
    /\ status' = BLUEPRINT_READY
    /\ activeTab' = FRONTEND
    /\ generateAllCode(requests)
    /\ UNCHANGED <<frontendCode, backendCode, deploymentGuide, isExporting, error,
                   requests, chunkSource, zip>>
    /\ UNCHANGED failedStreams
    /\ Effects

\* generateBlueprint threw: the catch block
BlueprintFailed ==
    /\ status = GENERATING_BLUEPRINT
    /\ error' = BlueprintError
    /\ status' = ERROR
    /\ UNCHANGED <<blueprint, activeTab, frontendCode, backendCode, deploymentGuide,
                   loadingModules, isExporting, requests, streams, chunkSource, zip>>
    /\ UNCHANGED failedStreams
    /\ Effects

\* mutant of OnChunk: the chunk is put in front of the buffer
OnChunkInFront(st, chunk) ==
    /\ st \in streams
    /\ frontendCode' = IF st.moduleType = "frontend" THEN chunk \o frontendCode ELSE frontendCode
    /\ backendCode' = IF st.moduleType = "backend" THEN chunk \o backendCode ELSE backendCode
    /\ deploymentGuide' = IF st.moduleType = "deployment" THEN chunk \o deploymentGuide
                          ELSE deploymentGuide
    /\ chunkSource' = [chunkSource EXCEPT ![st.moduleType] = Append(@, st.bp)]
    /\ UNCHANGED <<status, blueprint, activeTab, loadingModules, isExporting, error,
                   requests, streams, zip>>
    /\ UNCHANGED failedStreams
    /\ Effects

\* the onChunk callback of a stream: setXCode(prev => prev + chunk)
OnChunk(st, chunk) ==
    /\ st \in streams
    /\ frontendCode' = IF st.moduleType = "frontend" THEN frontendCode \o chunk ELSE frontendCode
    /\ backendCode' = IF st.moduleType = "backend" THEN backendCode \o chunk ELSE backendCode
    /\ deploymentGuide' = IF st.moduleType = "deployment" THEN deploymentGuide \o chunk
                          ELSE deploymentGuide
    /\ chunkSource' = [chunkSource EXCEPT ![st.moduleType] = Append(@, st.bp)]
    /\ UNCHANGED <<status, blueprint, activeTab, loadingModules, isExporting, error,
                   requests, streams, zip>>
    /\ UNCHANGED failedStreams
    /\ Effects

\* the promise of a stream settled: the .then and the .catch callbacks both
\* run setLoadingModules(prev => ({...prev, [moduleType]: false}))
StreamSettled(st) ==
    /\ st \in streams
    /\ loadingModules' = [loadingModules EXCEPT ![st.moduleType] = FALSE]
    /\ streams' = streams \ {st}
    /\ UNCHANGED <<status, blueprint, activeTab, frontendCode, backendCode, deploymentGuide,
                   isExporting, error, requests, chunkSource, zip>>
    /\ UNCHANGED failedStreams
    /\ Effects

\* mutant of StreamFailed: a failed stream leaves its loading flag set
StreamFailedKeepsFlag(st) ==
    /\ st \in streams
    /\ failedStreams' = failedStreams \cup {st}
    /\ streams' = streams \ {st}
    /\ UNCHANGED <<status, blueprint, activeTab, frontendCode, backendCode, deploymentGuide,
                   loadingModules, isExporting, error, requests, chunkSource, zip>>
    /\ Effects

\* generateModuleCode failed: it threw before its try block (the .catch
\* callback runs) or its catch block returned the error text (the .then
\* callback runs); either callback does what StreamSettled does
StreamFailed(st) ==
    /\ st \in streams
    /\ failedStreams' = failedStreams \cup {st}
    /\ loadingModules' = [loadingModules EXCEPT ![st.moduleType] = FALSE]
    /\ streams' = streams \ {st}
    /\ UNCHANGED <<status, blueprint, activeTab, frontendCode, backendCode, deploymentGuide,
                   isExporting, error, requests, chunkSource, zip>>
    /\ Effects

\* mutant of NewProject: the status is left as it is
NewProjectKeepsStatus ==
    /\ blueprint # 0
    /\ blueprint' = 0
    /\ UNCHANGED <<status, activeTab, frontendCode, backendCode, deploymentGuide, loadingModules,
                   isExporting, error, requests, streams, chunkSource, zip>>
    /\ UNCHANGED failedStreams
    /\ Effects

\* onClick of "New Project"
NewProject ==
    /\ blueprint # 0
    /\ blueprint' = 0
    /\ status' = IDLE
    /\ UNCHANGED <<activeTab, frontendCode, backendCode, deploymentGuide, loadingModules,
                   isExporting, error, requests, streams, chunkSource, zip>>
    /\ UNCHANGED failedStreams
    /\ Effects

\* ResultTabs: onClick of a tab
setActiveTab(tab) ==
    /\ blueprint # 0
    /\ tab # activeTab
    /\ activeTab' = tab
    /\ UNCHANGED <<status, blueprint, frontendCode, backendCode, deploymentGuide,
                   loadingModules, isExporting, error, requests, streams, chunkSource, zip>>
    /\ UNCHANGED failedStreams
    /\ Effects

\* ------------------------------------------------------------------ App: export
ZipEntry(path, content) == [path |-> path, content |-> content]

\* mutant of addFilesFromContent: match[2] is added without trim()
RECURSIVE addFilesUntrimmed(_, _)
addFilesUntrimmed(content, lastIndex) ==
    LET match == FileRegexExec(content, lastIndex)
    IN  IF match.found
        THEN <<ZipEntry(match.name, match.body)>> \o addFilesUntrimmed(content, match.end)
        ELSE <<>>

\* addFilesFromContent: the zip.file calls of the while loop over fileRegex.exec
RECURSIVE addFilesFromContent(_, _)
addFilesFromContent(content, lastIndex) ==
    LET match == FileRegexExec(content, lastIndex)
    IN  IF match.found
        THEN <<ZipEntry(match.name, Trim(match.body))>> \o addFilesFromContent(content, match.end)
        ELSE <<>>

\* mutant of ModuleExport: the guide document is written for every module
\* with text
ModuleExportWithGuide(content, guide) ==
    LET added == IF content = <<>> THEN <<>> ELSE addFilesFromContent(content, 1)
    IN  IF content # <<>> THEN added \o <<ZipEntry(guide, content)>>
        ELSE <<>>

\* "Process modules": the tagged files of a module or its guide document
ModuleExport(content, guide) ==
    LET added == IF content = <<>> THEN <<>> ELSE addFilesFromContent(content, 1)
    IN  IF content # <<>> /\ added # <<>> THEN added
        ELSE IF content # <<>> THEN <<ZipEntry(guide, content)>>
        ELSE <<>>

BlueprintJson == <<"JSON.stringify(blueprint)">>

\* handleExport up to its await: the zip is filled from the state of the render
handleExport ==
    /\ blueprint # 0
    /\ ~isExporting
    /\ isExporting' = TRUE
    /\ zip' = ModuleExport(frontendCode, "frontend-guide.md")
                \o ModuleExport(backendCode, "backend-guide.md")
                \o ModuleExport(deploymentGuide, "deployment.md")
                \o <<ZipEntry("blueprint.json", BlueprintJson)>>
    /\ UNCHANGED <<status, blueprint, activeTab, frontendCode, backendCode, deploymentGuide,
                   loadingModules, error, requests, streams, chunkSource>>
    /\ UNCHANGED failedStreams
    /\ Effects

\* mutant of ExportSettled: a failed export ends in the ERROR status
ExportSettledAsError(ok) ==
    /\ isExporting
    /\ isExporting' = FALSE
    /\ zip' = <<>>
    /\ error' = IF ok THEN error ELSE ExportError
    /\ status' = IF ok THEN status ELSE ERROR
    /\ UNCHANGED <<blueprint, activeTab, frontendCode, backendCode, deploymentGuide,
                   loadingModules, requests, streams, chunkSource>>
    /\ UNCHANGED failedStreams
    /\ Effects

\* zip.generateAsync settled: the download, or the catch block; then finally
ExportSettled(ok) ==
    /\ isExporting
    /\ isExporting' = FALSE
    /\ zip' = <<>>
    /\ error' = IF ok THEN error ELSE ExportError
    /\ UNCHANGED <<status, blueprint, activeTab, frontendCode, backendCode, deploymentGuide,
                   loadingModules, requests, streams, chunkSource>>
    /\ UNCHANGED failedStreams
    /\ Effects

\* JSZip: file(path, data) replaces the entry of the same path
ZipPaths(calls) == {calls[i].path : i \in 1..Len(calls)}
ZipArchive(calls) ==
    [p \in ZipPaths(calls) |->
        calls[CHOOSE i \in 1..Len(calls) :
                 /\ calls[i].path = p
                 /\ \A j \in (i + 1)..Len(calls) : calls[j].path # p].content]

\* ------------------------------------------------------------------ the application
Init ==
    /\ status = IDLE
    /\ blueprint = 0
    /\ activeTab = SUMMARY
    /\ frontendCode = <<>>
    /\ backendCode = <<>>
    /\ deploymentGuide = <<>>
    /\ loadingModules = NoneLoading
    /\ isExporting = FALSE
    /\ error = NoError
    /\ requests = 0
    /\ streams = {}
    /\ chunkSource = NoChunks
    /\ zip = <<>>
    /\ failedStreams = {}
    /\ files = <<>>
    /\ activeFile = NoFile
    /\ showPreview = FALSE
    /\ previewUrl = 0
    /\ blobs = <<>>

\* chunks held by the three buffers together
Delivered == Len(chunkSource["frontend"]) + Len(chunkSource["backend"])
               + Len(chunkSource["deployment"])

\* Spec: requests, their streams and "New Project".  A chunk is a closed
\* record, or a closed record followed by an open one; the tab stays where
\* the code puts it.
SessionChunks == { <<OpenApp, Char, CloseTag>>, <<OpenApp, Char, CloseTag, OpenMain, Char>> }

Next ==
    \/ requests < MaxSessions /\ handleCreateBlueprint
    \/ BlueprintResolved
    \/ BlueprintFailed
    \/ \E st \in streams, chunk \in SessionChunks : Delivered < MaxChunks /\ OnChunk(st, chunk)
    \/ \E st \in streams : StreamSettled(st)
    \/ NewProject
    \/ \E i \in 1..Len(files) : SelectFile(i)

Spec == Init /\ [][Next]_vars

\* the state BlueprintResolved leaves after the first request
InitResults ==
    /\ status = BLUEPRINT_READY
    /\ blueprint = 1
    /\ activeTab = FRONTEND
    /\ frontendCode = <<>>
    /\ backendCode = <<>>
    /\ deploymentGuide = <<>>
    /\ loadingModules = AllLoading
    /\ isExporting = FALSE
    /\ error = NoError
    /\ requests = 1
    /\ streams = {[bp |-> 1, moduleType |-> m] : m \in Modules}
    /\ chunkSource = NoChunks
    /\ zip = <<>>
    /\ failedStreams = {}
    /\ files = <<>>
    /\ activeFile = NoFile
    /\ showPreview = FALSE
    /\ previewUrl = 0
    /\ blobs = <<>>

\* SpecResults: one generation on the results screen, with the tabs and the
\* export.  A chunk is a closed record, a closed record of the same name and
\* other content, an open record, or prose.
ResultChunks ==
    { <<OpenApp, Char, CloseTag>>, <<OpenApp, CloseTag>>, <<OpenMain, Char>>, <<Char>> }

NextResults ==
    \/ \E st \in streams, chunk \in ResultChunks :
          Delivered < MaxResultChunks /\ OnChunk(st, chunk)
    \/ \E st \in streams : StreamSettled(st)
    \/ \E tab \in TabOption : setActiveTab(tab)
    \/ \E i \in 1..Len(files) : SelectFile(i)
    \/ handleExport
    \/ \E ok \in BOOLEAN : ExportSettled(ok)

SpecResults == InitResults /\ [][NextResults]_vars

\* the state after the backend and deployment streams of the first request
\* settled without a chunk
InitViewer ==
    /\ status = BLUEPRINT_READY
    /\ blueprint = 1
    /\ activeTab = FRONTEND
    /\ frontendCode = <<>>
    /\ backendCode = <<>>
    /\ deploymentGuide = <<>>
    /\ loadingModules = [m \in Modules |-> m = "frontend"]
    /\ isExporting = FALSE
    /\ error = NoError
    /\ requests = 1
    /\ streams = {[bp |-> 1, moduleType |-> "frontend"]}
    /\ chunkSource = NoChunks
    /\ zip = <<>>
    /\ failedStreams = {}
    /\ files = <<>>
    /\ activeFile = NoFile
    /\ showPreview = FALSE
    /\ previewUrl = 0
    /\ blobs = <<>>

\* SpecViewer: the frontend stream token by token, so that the buffer runs
\* through every text of at most MaxLen tokens; the export is asked for once
\* the generation is complete
NextViewer ==
    \/ \E st \in streams, tok \in Tokens :
          Len(frontendCode) < MaxLen /\ OnChunk(st, <<tok>>)
    \/ \E st \in streams : StreamSettled(st)
    \/ \E i \in 1..Len(files) : SelectFile(i)
    \/ streams = {} /\ handleExport
    \/ \E ok \in BOOLEAN : ExportSettled(ok)

SpecViewer == InitViewer /\ [][NextViewer]_vars

\* SpecPreview: one generation on the results screen with the preview, the
\* tabs and failing streams.  A chunk is the root component closed and the
\* entry file opened, the rest of an open record, or a file without a '.'.
PreviewChunks ==
    { <<OpenApp, Char, CloseTag, OpenMain>>, <<Char, CloseTag>>, <<OpenDocker, Char, CloseTag>> }

NextPreview ==
    \/ \E st \in streams, chunk \in PreviewChunks :
          Delivered < MaxPreviewChunks /\ OnChunk(st, chunk)
    \/ \E st \in streams : StreamSettled(st)
    \/ \E st \in streams : StreamFailed(st)
    \/ \E tab \in TabOption : setActiveTab(tab)
    \/ \E i \in 1..Len(files) : SelectFile(i)
    \/ Len(blobs) < MaxBlobs /\ TogglePreview

SpecPreview == InitResults /\ [][NextPreview]_vars

\* SpecStreams: the three streams of one generation, each of which resolves
\* or fails, with no further request.
NextStreams ==
    \/ \E st \in streams, chunk \in SessionChunks : Delivered < MaxChunks /\ OnChunk(st, chunk)
    \/ \E st \in streams : StreamSettled(st)
    \/ \E st \in streams : StreamFailed(st)
    \/ \E tab \in TabOption : setActiveTab(tab)
    \/ \E i \in 1..Len(files) : SelectFile(i)

\* A stream leaves the set of streams in flight: its generateModuleCode call
\* returned or threw and the .then or .catch callback ran.  The steps of
\* NextStreams that do this are those of StreamSettled and StreamFailed.  A
\* stream that is in flight terminates, so such a step is taken while any
\* stream is in flight.
StreamLeaves == \E st \in streams : streams' = streams \ {st}

SpecStreams == InitResults /\ [][NextStreams]_vars /\ WF_streams(StreamLeaves)

\* SpecBundler: the frontend viewer of a complete generation over every text
\* of at most MaxBundleFiles closed records.  A record has one of the paths
\* the bundler tells apart and a body with a default export, with a named
\* export, or with neither.
BundlerBodies == { <<Char>>, <<ExportDefault, Char>>, <<Export, Char>> }
BundlerRecords ==
    { <<open>> \o body \o <<CloseTag>> :
        open \in {OpenApp, OpenMain, OpenPagesIndex, OpenCard, OpenUtils}, body \in BundlerBodies }

RECURSIVE BundlerTexts(_)
BundlerTexts(n) ==
    IF n = 0 THEN {<<>>}
    ELSE BundlerTexts(n - 1) \cup {t \o r : t \in BundlerTexts(n - 1), r \in BundlerRecords}

InitBundler ==
    /\ status = BLUEPRINT_READY
    /\ blueprint = 1
    /\ activeTab = FRONTEND
    /\ frontendCode \in BundlerTexts(MaxBundleFiles) \ {<<>>}
    /\ backendCode = <<>>
    /\ deploymentGuide = <<>>
    /\ loadingModules = NoneLoading
    /\ isExporting = FALSE
    /\ error = NoError
    /\ requests = 1
    /\ streams = {}
    /\ chunkSource = [NoChunks EXCEPT !["frontend"] = <<1>>]
    /\ zip = <<>>
    /\ failedStreams = {}
    /\ files = ParseFiles(frontendCode, FALSE)
    /\ activeFile = files[1]
    /\ showPreview = FALSE
    /\ previewUrl = 0
    /\ blobs = <<>>

NextBundler ==
    \/ \E i \in 1..Len(files) : SelectFile(i)
    \/ Len(blobs) < MaxBlobs /\ TogglePreview

SpecBundler == InitBundler /\ [][NextBundler]_vars


\* ------------------------------------------------------------------ what the claims speak of
Max(S) == CHOOSE x \in S : \A y \in S : y <= x

Names(fs) == [i \in 1..Len(fs) |-> fs[i].name]
FilePairs(fs) == {<<fs[i].name, fs[i].content>> : i \in 1..Len(fs)}
OpenEntries(fs) == {i \in 1..Len(fs) : ~fs[i].isComplete}
IsPrefix(s, t) == Len(s) <= Len(t) /\ SubSeq(t, 1, Len(s)) = s

\* what the viewer of module m shows: the file list of the pass over m's
\* buffer and streaming flag
DisplayedFiles(m) == ParseFiles(Buffer(m), loadingModules[m])

\* the viewer stays on the same module of the same generation over a step
SameViewer ==
    /\ Mounted(blueprint, activeTab)
    /\ Mounted(blueprint', activeTab')
    /\ activeTab' = activeTab
    /\ requests' = requests

\* the entries of the archive that are files of the generation
GuideDocuments == {"frontend-guide.md", "backend-guide.md", "deployment.md"}
ArchivePairs(calls) ==
    LET archive == ZipArchive(calls)
    IN  {<<q, archive[q]>> : q \in (DOMAIN archive) \ (GuideDocuments \cup {"blueprint.json"})}
ExtractedPairs(calls) ==
    {<<calls[i].path, calls[i].content>> :
        i \in {j \in 1..Len(calls) : calls[j].path \notin GuideDocuments \cup {"blueprint.json"}}}

\* The records of a text, stated on its closing markers: a closing marker at
\* q ends a complete record when an opening marker lies between the closing
\* marker before q and q; the record opens at the first such marker.
ClosePositions(c) == {q \in 1..Len(c) : c[q] = CloseTag}
PrevClose(c, q) == Max({0} \cup {r \in ClosePositions(c) : r < q})
OpensBetween(c, lo, hi) == {p \in (lo + 1)..(hi - 1) : c[p] \in OpenTags}
RecordEnds(c) == {q \in ClosePositions(c) : OpensBetween(c, PrevClose(c, q), q) # {}}
Nth(S, k) == CHOOSE x \in S : Cardinality({y \in S : y < x}) = k - 1

\* a text without its leading and trailing whitespace
Trimmed(body) ==
    LET solid == {i \in 1..Len(body) : body[i] \notin Whitespace}
    IN  IF solid = {} THEN <<>> ELSE SubSeq(body, Min(solid), Max(solid))

ExpectedClosed(c) ==
    [k \in 1..Cardinality(RecordEnds(c)) |->
        LET q == Nth(RecordEnds(c), k)
            p == Min(OpensBetween(c, PrevClose(c, q), q))
        IN  ParsedFile(NameOf(c[p]), Trimmed(SubSeq(c, p + 1, q - 1)), TRUE)]

ExpectedOpen(c, flag) ==
    LET opens == OpensBetween(c, Max({0} \cup RecordEnds(c)), Len(c) + 1)
    IN  IF flag /\ opens # {}
        THEN <<ParsedFile(NameOf(c[Min(opens)]), SubSeq(c, Min(opens) + 1, Len(c)), FALSE)>>
        ELSE <<>>

\* the records of the buffer of the viewer, in order: the closed ones and the open one
RecordsShown == ExpectedClosed(ContentProp) \o ExpectedOpen(ContentProp, IsStreamingProp)

\* ------------------------------------------------------------------ C1
\* C1: no chunk of a stream of an earlier request is in a buffer of the
\* current request: every chunk of the three buffers was delivered by a
\* stream that generateAllCode started for the current request.
C1_NoChunkOfPriorSession ==
    \A m \in Modules : \A i \in 1..Len(chunkSource[m]) : chunkSource[m][i] = requests

\* ------------------------------------------------------------------ C2
\* C2: activeFile is none or has the name of an entry of files.
C2_ActiveFileInFiles ==
    activeFile = NoFile \/ \E i \in 1..Len(files) : files[i].name = activeFile.name

\* ------------------------------------------------------------------ C3
\* a pass over a buffer that only extends the content of the open file, which
\* is the active file and the only entry of its name
ExtendsActiveFile ==
    /\ SameViewer
    /\ ContentProp' # ContentProp
    /\ IsPrefix(ContentProp, ContentProp')
    /\ OpenEntries(files) = {Len(files)}
    /\ OpenEntries(files') = {Len(files)}
    /\ Names(files') = Names(files)
    /\ activeFile.name = files[Len(files)].name
    /\ \A i \in 1..(Len(files) - 1) : files[i].name # activeFile.name

\* C3: a pass that only extends the active file B leaves activeFile naming B
\* and the content shown for it (activeFile.content) is B's content of that pass.
C3_SelectionShowsUpdatedContent ==
    [][ExtendsActiveFile =>
          /\ activeFile'.name = activeFile.name
          /\ activeFile'.content = files'[Len(files')].content]_vars

\* ------------------------------------------------------------------ C4
\* C4: for every path of a record of the buffer the file list holds exactly
\* one entry, and the entry carries the content of the last record of the path.
C4_UniquePaths ==
    Mounted(blueprint, activeTab) =>
        \A k \in 1..Len(RecordsShown) :
            LET path == RecordsShown[k].name
                last == Max({j \in 1..Len(RecordsShown) : RecordsShown[j].name = path})
                entries == {i \in 1..Len(files) : files[i].name = path}
            IN  /\ Cardinality(entries) = 1
                /\ \A i \in entries : files[i].content = RecordsShown[last].content

\* ------------------------------------------------------------------ C5
\* C5: a path of the file list is in the file list after every later pass of
\* the same viewer and generation.
C5_FilesNeverLeave ==
    [][SameViewer =>
          \A i \in 1..Len(files) : \E j \in 1..Len(files') : files'[j].name = files[i].name]_vars

\* ------------------------------------------------------------------ C6
\* C6: the file list holds at most one open file; an open file is the last
\* entry and is there only while the streaming flag is set.
C6_AtMostOneOpen ==
    /\ Cardinality(OpenEntries(files)) <= 1
    /\ \A i \in OpenEntries(files) : i = Len(files)
    /\ OpenEntries(files) # {} => Mounted(blueprint, activeTab) /\ IsStreamingProp

C6_Witness ==
    /\ Len(files) = 2
    /\ OpenEntries(files) = {2}
    /\ files[2].content # <<>>
    /\ IsStreamingProp

\* ------------------------------------------------------------------ C7
\* the buffer ends inside an open record: an opening marker follows the last
\* complete record
EndsInsideOpenRecord(content) == PartialFiles(content, MatchAll(content), TRUE) # <<>>

ClosedStable(old, new) ==
    \A i \in 1..Len(old) : old[i].isComplete => i <= Len(new) /\ new[i] = old[i]

\* C7: for the buffer B and file list parse(B) of the viewer and every token
\* t: the closed files of parse(B) are at the same index of parse(B + t),
\* unchanged; and when t is no closing marker and B ends inside an open
\* record, parse(B + t) has the paths of parse(B) and differs from it only in
\* the content of the open entry, which is extended by t.  (For a longer
\* extension the statement follows token by token.)
C7_ClosedFilesStable ==
    Mounted(blueprint, activeTab) =>
        \A t \in Tokens :
            LET new == ParseFiles(ContentProp \o <<t>>, IsStreamingProp)
            IN  /\ ClosedStable(files, new)
                /\ (t # CloseTag /\ EndsInsideOpenRecord(ContentProp)) =>
                      /\ Names(new) = Names(files)
                      /\ \A i \in OpenEntries(files) :
                            new[i] = [files[i] EXCEPT !.content = @ \o <<t>>]

C7_Witness ==
    /\ Len(files) = 2
    /\ files[1].isComplete /\ files[1].content # <<>>
    /\ ~files[2].isComplete /\ files[2].content # <<>>
    /\ files[1].name # files[2].name


\* ------------------------------------------------------------------ C8
\* the two concrete buffers of the specification's testable properties 7 and 8
ScenarioOpen == <<OpenApp, Newline, Char, Newline, CloseTag, OpenMain, Newline, Char>>
ScenarioClosed == ScenarioOpen \o <<Newline, CloseTag>>

\* C8: the file list of a pass is one closed file per complete record, its
\* content the trimmed body, followed, only when the streaming flag is set and
\* an opening marker follows the last complete record, by one open file whose
\* content is the raw text from that marker to the end of the buffer.
C8_ParseResult ==
    /\ Mounted(blueprint, activeTab) =>
          files = RecordsShown
    /\ ParseFiles(ScenarioOpen, TRUE) =
          <<ParsedFile("App.tsx", <<Char>>, TRUE), ParsedFile("main.tsx", <<Newline, Char>>, FALSE)>>
    /\ ParseFiles(ScenarioClosed, FALSE) =
          <<ParsedFile("App.tsx", <<Char>>, TRUE), ParsedFile("main.tsx", <<Char>>, TRUE)>>

C8_Witness ==
    /\ ContentProp = <<OpenApp, Newline, CloseTag, OpenMain, Newline>>
    /\ IsStreamingProp
    /\ files = <<ParsedFile("App.tsx", <<>>, TRUE), ParsedFile("main.tsx", <<Newline>>, FALSE)>>

\* ------------------------------------------------------------------ C9
\* C9: once the frontend generation is complete, the (path, content) pairs the
\* export extracts from the frontend text are the (path, content) pairs of the
\* file list of the frontend viewer.
C9_ExtractionMatchesViewer ==
    (isExporting /\ streams = {} /\ Mounted(blueprint, activeTab) /\ activeTab = FRONTEND
        /\ backendCode = <<>> /\ deploymentGuide = <<>>)
    => ExtractedPairs(zip) = FilePairs(files)

C9_Witness ==
    /\ isExporting
    /\ streams = {}
    /\ Len(files) = 2
    /\ files[1].name = files[2].name
    /\ files[1].content # files[2].content
    /\ Cardinality(ExtractedPairs(zip)) = 2

\* ------------------------------------------------------------------ C10
\* C10: when the export of a complete generation (no stream in flight) fills
\* the archive, the files of the archive are the (path, content) pairs the
\* three viewers show.
C10_ArchiveMatchesViewers ==
    [][(~isExporting /\ isExporting' /\ streams = {}) =>
          ArchivePairs(zip') = UNION {FilePairs(DisplayedFiles(m)) : m \in Modules}]_vars

\* ------------------------------------------------------------------ C11
\* C11: a failure of the blueprint call leaves the error set, and so does a
\* failure of a module stream of the current request; the closed files parsed
\* before a stream failed stay in the viewer.
C11_FailureSurfaced ==
    /\ status = ERROR => error # NoError
    /\ (\E st \in failedStreams : st.bp = requests) => error # NoError

\* ------------------------------------------------------------------ C12
\* C12: at most one blob URL created for the preview is unreleased.
C12_OneLiveBlob == Len(blobs) <= 1

\* ------------------------------------------------------------------ C13
\* C13: the preview shown in the frontend viewer is the bundle of the file
\* list of the viewer, whenever that file list can be bundled.
C13_PreviewOfCurrentFiles ==
    (Mounted(blueprint, activeTab) /\ activeTab = FRONTEND /\ showPreview /\ previewUrl # 0
        /\ generatePreview(files) # <<>>)
    => <<blobs[previewUrl]>> = generatePreview(files)

\* ------------------------------------------------------------------ C14
\* C14: after a switch from the viewer of one module to the viewer of another,
\* activeFile is none or a file of the new viewer's file list, and no preview
\* is shown.
C14_RegistryPerModule ==
    [][(Mounted(blueprint, activeTab) /\ Mounted(blueprint', activeTab') /\ activeTab' # activeTab) =>
          /\ activeFile' = NoFile \/ \E i \in 1..Len(files') : files'[i] = activeFile'
          /\ ~showPreview'
          /\ previewUrl' = 0]_vars

\* ------------------------------------------------------------------ C15
\* C15: the step that issues a request (handleCreateBlueprint up to the
\* blueprint call) leaves blueprint none, the three buffers empty, the three
\* loading flags false and the error cleared.
C15_RequestDiscardsSession ==
    [][requests' # requests =>
          /\ blueprint' = 0
          /\ frontendCode' = <<>> /\ backendCode' = <<>> /\ deploymentGuide' = <<>>
          /\ loadingModules' = NoneLoading
          /\ error' = NoError]_vars

\* the second request is issued while streams of the first are in flight
C15_Witness ==
    /\ requests = 2
    /\ status = GENERATING_BLUEPRINT
    /\ streams # {}
    /\ blueprint = 0
    /\ frontendCode = <<>> /\ backendCode = <<>> /\ deploymentGuide = <<>>
    /\ loadingModules = NoneLoading

\* ------------------------------------------------------------------ C16
\* the branch "if (files.length === 0 && !isStreaming)" of the render: the
\* buffer is rendered as prose
ProseFallback == Len(files) = 0 /\ ~IsStreamingProp

\* C16: when the streaming flag is not set and the buffer holds no complete
\* record, the file list is empty and the viewer renders the buffer as prose;
\* whatever the buffer, the application is not in its error status and a
\* parse sets no error.
C16_ProseFallback ==
    /\ (Mounted(blueprint, activeTab) /\ ~IsStreamingProp /\ RecordEnds(ContentProp) = {})
          => files = <<>> /\ ProseFallback
    /\ status # ERROR
    /\ error \in {NoError, ExportError}

C16_Witness ==
    /\ Mounted(blueprint, activeTab)
    /\ ~IsStreamingProp
    /\ ContentProp = <<OpenApp, Char, Newline>>
    /\ files = <<>>
    /\ ProseFallback

\* ------------------------------------------------------------------ C17
\* the text after the final '.' of a path, the fallback tag when it has no '.'
ExpectedLanguage(name) ==
    LET c == Chars(name)
        dots == {i \in 1..Len(c) : c[i] = "."}
    IN  IF dots = {} THEN TXT ELSE SubSeq(c, Max(dots) + 1, Len(c))

\* C17: the language of every file of the file list is the text after the
\* final '.' of its path, and the fallback tag 'txt' when the path has no '.'.
C17_LanguageIsExtension ==
    \A i \in 1..Len(files) : files[i].language = ExpectedLanguage(files[i].name)

\* ------------------------------------------------------------------ C18
\* the parse effect runs over the step: the component is mounted by the step
\* or one of its two dependencies changes
PassRuns ==
    /\ Mounted(blueprint', activeTab')
    /\ \/ ~Mounted(blueprint, activeTab)
       \/ ContentProp' # ContentProp
       \/ IsStreamingProp' # IsStreamingProp

\* the activeFile the pass starts from
ActiveBefore == IF Mounted(blueprint, activeTab) THEN activeFile ELSE NoFile

\* C18: after a pass whose file list is not empty and lacks the path of the
\* active file, activeFile is the first file of the list; after a pass whose
\* file list has the path, activeFile has that path.
C18_FallbackToFirst ==
    [][(PassRuns /\ ActiveBefore # NoFile /\ files' # <<>>) =>
          IF \E i \in 1..Len(files') : files'[i].name = ActiveBefore.name
          THEN activeFile'.name = ActiveBefore.name
          ELSE activeFile' = files'[1]]_vars

\* ------------------------------------------------------------------ C19
\* C19: a pass that yields at least one file while no file is active makes
\* the first file of the list the active file; a pass leaves an active file
\* whose path is in the new list as the active file.
C19_FirstFileSelected ==
    [][PassRuns =>
          /\ (ActiveBefore = NoFile /\ files' # <<>>) => activeFile' = files'[1]
          /\ (ActiveBefore # NoFile /\ \E i \in 1..Len(files') : files'[i].name = ActiveBefore.name)
                => activeFile'.name = ActiveBefore.name]_vars

\* the second file was selected and a later pass, which extended it, kept it
C19_Witness ==
    /\ Len(files) = 2
    /\ files[1].name # files[2].name
    /\ activeFile.name = files[2].name
    /\ activeFile.content # files[2].content

\* ------------------------------------------------------------------ C20
\* C20: a click that turns the preview on over a file list without an entry
\* file or without a root component creates no blob URL, leaves files and
\* activeFile as they are, and the preview area shows its pending state
\* (previewUrl is null).
C20_AbortLeavesPending ==
    [][(~showPreview /\ showPreview' /\ generatePreview(files) = <<>>) =>
          /\ blobs' = blobs
          /\ files' = files
          /\ activeFile' = activeFile
          /\ previewUrl' = 0]_vars

\* ------------------------------------------------------------------ C21
\* the generation state: blueprint, status, the buffers and the loading flags
GenerationState ==
    <<blueprint, status, frontendCode, backendCode, deploymentGuide, loadingModules>>

\* C21: a failed export sets the error message and clears the exporting flag;
\* neither the start of an export nor its end, failed or not, changes
\* blueprint, status, the three buffers or the three loading flags.
C21_ExportFailureFrame ==
    [][/\ ExportSettled(FALSE) => error' = ExportError /\ ~isExporting'
       /\ isExporting' # isExporting => GenerationState' = GenerationState]_vars

\* an export failed while a stream was in flight and a buffer was filled
C21_Witness ==
    /\ error = ExportError
    /\ ~isExporting
    /\ status = BLUEPRINT_READY
    /\ blueprint # 0
    /\ frontendCode # <<>>
    /\ loadingModules["backend"]

\* ------------------------------------------------------------------ C22
\* C22: a step that delivers a chunk to module m appends one chunk at the end
\* of m's buffer, and leaves the other two buffers, the blueprint and the
\* status as they are; no other step of a generation changes a buffer.
C22_ChunksAppended ==
    [][\A m \in Modules :
          /\ Len(chunkSource'[m]) > Len(chunkSource[m]) =>
                /\ IsPrefix(Buffer(m), Buffer(m)')
                /\ Slice(Buffer(m)', Len(Buffer(m)) + 1) \in ResultChunks
                /\ Len(chunkSource'[m]) = Len(chunkSource[m]) + 1
                /\ \A o \in Modules \ {m} : Buffer(o)' = Buffer(o)
                /\ blueprint' = blueprint
                /\ status' = status
          /\ chunkSource'[m] = chunkSource[m] => Buffer(m)' = Buffer(m)]_vars

\* two chunks of the frontend stream, in the order of their arrival
C22_Witness ==
    /\ frontendCode = <<OpenMain, Char>> \o <<OpenApp, Char, CloseTag>>
    /\ Len(chunkSource["frontend"]) = 2
    /\ backendCode = <<>>
    /\ deploymentGuide = <<>>

\* ------------------------------------------------------------------ C23
\* the positions of the opening markers of the records of a text, in the
\* order of the closing markers and the open record last
Openers(c, flag) ==
    LET closed == [k \in 1..Cardinality(RecordEnds(c)) |->
                      LET q == Nth(RecordEnds(c), k)
                      IN  Min(OpensBetween(c, PrevClose(c, q), q))]
        opens == OpensBetween(c, Max({0} \cup RecordEnds(c)), Len(c) + 1)
    IN  IF flag /\ opens # {} THEN Append(closed, Min(opens)) ELSE closed

\* C23: the entries of the file list are the records of the buffer in the
\* order of the positions of their opening markers: entry i is the record
\* whose opening marker is the i-th, and a marker that starts earlier has the
\* smaller index.
C23_FilesInMarkerOrder ==
    Mounted(blueprint, activeTab) =>
        LET pos == Openers(ContentProp, IsStreamingProp)
        IN  /\ Len(pos) = Len(files)
            /\ \A i \in 1..Len(files) : files[i].name = NameOf(ContentProp[pos[i]])
            /\ \A i, j \in 1..Len(files) : i < j <=> pos[i] < pos[j]

C23_Witness ==
    /\ Len(files) = 3
    /\ files[1].name = "main.tsx"
    /\ files[2].name = "App.tsx"
    /\ files[3].name = "main.tsx"
    /\ ~files[3].isComplete

\* ------------------------------------------------------------------ C24
\* the place of a bundled file in the order the bundler is to keep: utilities
\* and types, components, pages, the root component, the entry file
Rank(f) ==
    IF IsMainFile(f) THEN 5
    ELSE IF IsAppFile(f) THEN 4
    ELSE IF IsUtilsOrTypes(f) THEN 1
    ELSE IF IsComponent(f) THEN 2
    ELSE 3

\* C24: in every bundle the files stand in the order utilities/types,
\* components, pages, root component, entry file, and the last file of the
\* bundle is the entry file.
C24_BundleOrder ==
    \A b \in 1..Len(blobs) :
        LET doc == blobs[b]
        IN  /\ IsMainFile(doc[Len(doc)])
            /\ \A i, j \in 1..Len(doc) : i < j => Rank(doc[i]) <= Rank(doc[j])

\* ------------------------------------------------------------------ C30
\* the files of a bundle whose part of the script binds DefaultExport
BindsDefaultExport(doc) ==
    {k \in 1..Len(doc) : \E i \in 1..Len(doc[k].content) : doc[k].content[i] = ConstDefaultExport}

\* C30: in every bundle at most one file binds the name DefaultExport, so
\* that the default exports of two files are bound under different names.
C30_DefaultExportsDistinct ==
    \A b \in 1..Len(blobs) : Cardinality(BindsDefaultExport(blobs[b])) <= 1

\* ------------------------------------------------------------------ C25
\* C25: the preview button is rendered only when the file list of the viewer
\* has an entry file.
C25_PreviewNeedsEntry == PreviewOffered => MainFile(files) # 0

\* ------------------------------------------------------------------ C26
GuideOf(m) ==
    CASE m = "frontend" -> "frontend-guide.md"
      [] m = "backend" -> "backend-guide.md"
      [] OTHER -> "deployment.md"

\* what the archive is to receive for a module: nothing for an empty text,
\* one entry per complete record of the text, or the guide document
ExpectedExport(m) ==
    LET records == ExpectedClosed(Buffer(m))
    IN  IF Buffer(m) = <<>> THEN <<>>
        ELSE IF records = <<>> THEN <<ZipEntry(GuideOf(m), Buffer(m))>>
        ELSE [k \in 1..Len(records) |-> ZipEntry(records[k].name, records[k].content)]

\* C26: the step that starts an export hands to the archive, for each module
\* with text, the complete records of the text or, when it has none, the one
\* guide document holding the text; nothing for a module without text; and
\* blueprint.json.
C26_ExportPerModule ==
    [][(~isExporting /\ isExporting') =>
          zip' = ExpectedExport("frontend") \o ExpectedExport("backend")
                   \o ExpectedExport("deployment")
                   \o <<ZipEntry("blueprint.json", BlueprintJson)>>]_vars

\* an export of a module with records, a module with prose only and a module
\* without text
C26_Witness ==
    /\ isExporting
    /\ Len(zip) = 3
    /\ zip[1].path = "App.tsx"
    /\ zip[2] = ZipEntry("backend-guide.md", <<Char>>)
    /\ zip[3].path = "blueprint.json"
    /\ deploymentGuide = <<>>

\* ------------------------------------------------------------------ C27
\* C27: while the stream of the current request for module m is in flight,
\* the loading flag of m is set.
C27_FlagWhileInFlight ==
    \A st \in streams : st.bp = requests => loadingModules[st.moduleType]

\* ------------------------------------------------------------------ C28
\* C28: every stream in flight leads to a state in which it has ended and the
\* loading flag of its module is clear; and whenever no stream is in flight
\* the three loading flags are clear.
C28_StreamEndClearsFlag ==
    /\ \A m \in Modules :
          ([bp |-> 1, moduleType |-> m] \in streams)
             ~> ([bp |-> 1, moduleType |-> m] \notin streams /\ ~loadingModules[m])
    /\ [](streams = {} => loadingModules = NoneLoading)

\* the three streams have ended, one of them by failing
C28_Witness ==
    /\ streams = {}
    /\ Cardinality(failedStreams) = 1
    /\ loadingModules = NoneLoading
    /\ Delivered = 1

\* ------------------------------------------------------------------ C29
\* C29: status is BLUEPRINT_READY exactly when blueprint is set; in the ERROR
\* status there is an error message, no blueprint and no stream of the failed
\* request; in the IDLE status there is no blueprint.
C29_ReadyIffBlueprint ==
    /\ status = BLUEPRINT_READY <=> blueprint # 0
    /\ status = ERROR =>
          /\ error # NoError
          /\ blueprint = 0
          /\ \A st \in streams : st.bp # requests
    /\ status = IDLE => blueprint = 0

\* the second request failed while streams of the first were in flight
C29_Witness ==
    /\ status = ERROR
    /\ error = BlueprintError
    /\ requests = 2
    /\ blueprint = 0
    /\ streams # {}

====
